---- MODULE Spec2Model ----
(***************************************************************************)
(* Model of AccountPool (src/main/proxy/accountPool.ts): the multi-account *)
(* round-robin scheduler with per-account cooldown, auto-recovery and      *)
(* token-expiry handling.  Time is in milliseconds, as Date.now().         *)
(***************************************************************************)
EXTENDS Integers, Sequences, FiniteSets, TLC

\* ------------------------------------------------------------------ bounds
\* Steps (calls into the pool and clock advances) in one behaviour.
MaxSteps == 5
\* Lifetime of the access token a caller supplies (expiresAt = now + TokenLifetime).
TokenLifetime == 1
\* Date.now() in the initial state.
StartTime == 1000000
\* Tokens one successful request reports.
TokensPerRequest == 1

\* ------------------------------------------------------- DEFAULT_CONFIG
cooldownMs == 60000
maxErrorCount == 3
quotaResetMs == 3600000
networkCooldownMs == 10000
serverCooldownMs == 30000
autoRecoverMs == 300000
expiryGracePeriodMs == 60000
\* markNeedsRefresh's hard-coded auto-recover delay.
refreshRecoverMs == 30000

\* ------------------------------------------------------------ JS values
\* The account ids callers use.
Ids == {"a", "b"}
\* The ids of a pool built for the selection scenarios, in insertion order.
PoolIds == <<"a", "b", "c">>
ErrorType == {"quota", "auth", "network", "server", "unknown"}
\* JavaScript's undefined, for the optional numeric fields.
undefined == 0 - 1
\* JavaScript truthiness of an optional number: neither undefined nor 0.
Truthy(x) == x # undefined /\ x # 0
\* x || 0
OrZero(x) == IF Truthy(x) THEN x ELSE 0
Max(x, y) == IF x >= y THEN x ELSE y

VARIABLES
  accounts,      \* Map<string, ProxyAccount>, as the sequence of its entries in insertion order
  accountStats,  \* Map<string, AccountStats>, as a function on its keys
  currentIndex,  \* the round-robin cursor
  now,           \* Date.now()
  steps,         \* calls and clock advances so far
  ret,           \* the last call, what it returned and the predicate evaluations it made
  lastError      \* history: per account, the run of recordError calls of one type that
                 \* ends its history, if the record is as the last of them left it

vars == <<accounts, accountStats, currentIndex, now, steps, ret, lastError>>

\* ------------------------------------------------------------ Map helpers
Keys(m) == {m[i].key : i \in 1..Len(m)}
MapHas(m, k) == k \in Keys(m)
IndexOf(m, k) == CHOOSE i \in 1..Len(m) : m[i].key = k
MapGet(m, k) == m[IndexOf(m, k)]
\* Map.set: an existing key keeps its position, a new key goes last.
MapSet(m, k, r) ==
  IF MapHas(m, k) THEN [m EXCEPT ![IndexOf(m, k)] = [r EXCEPT !.key = k]]
  ELSE Append(m, [r EXCEPT !.key = k])
\* Map.delete
MapDelete(m, k) == SelectSeq(m, LAMBDA e : e.key # k)

ZeroStats == [requests |-> 0, tokens |-> 0, errors |-> 0, lastUsed |-> 0]
StatsSetAll(s, k, v) == [x \in DOMAIN s \cup {k} |-> v]
StatsSet(s, k, v) == [x \in DOMAIN s \cup {k} |-> IF x = k THEN v ELSE s[x]]
StatsDelete(s, k) == [x \in DOMAIN s \ {k} |-> s[x]]

\* What a call returned: nothing (void), null, a value, or a thrown TypeError; and the
\* isAccountAvailable(account, now) calls it made, in order, each with its result.
NoValue == [key |-> "-", id |-> "-"]
Returned(op, id, arg, kind, val, evals) ==
  [op |-> op, id |-> id, arg |-> arg, kind |-> kind, val |-> val, evals |-> evals]
Void(op, id, arg) == Returned(op, id, arg, "void", NoValue, << >>)

\* ---------------------------------------------------------------- history
NoError == [type |-> "none", n |-> 0, at |-> 0]
\* A record that a step leaves as it was keeps its history; any other loses it.
Track(m) ==
  [k \in Keys(m) |-> IF MapHas(accounts, k) /\ MapGet(m, k) = MapGet(accounts, k)
                     THEN lastError[k] ELSE NoError]
Tracked == lastError' = Track(accounts')

\* ------------------------------------------------- availability predicate
\* isAccountAvailable's return value.
isAccountAvailableNoVeto(account, t) ==
  IF Truthy(account.autoRecoverAt) /\ account.autoRecoverAt <= t THEN TRUE
  ELSE IF Truthy(account.cooldownUntil) /\ account.cooldownUntil > t THEN FALSE
  ELSE IF OrZero(account.errorCount) >= maxErrorCount THEN FALSE
  ELSE IF Truthy(account.expiresAt) /\ account.expiresAt + expiryGracePeriodMs < t THEN FALSE
  ELSE account.isAvailable # FALSE
isAccountAvailableDuringCooldown(account, t) ==
  IF Truthy(account.autoRecoverAt) /\ account.autoRecoverAt <= t THEN TRUE
  ELSE IF Truthy(account.autoRecoverAt) /\ account.autoRecoverAt > t THEN FALSE
  ELSE IF OrZero(account.errorCount) >= maxErrorCount THEN FALSE
  ELSE IF Truthy(account.expiresAt) /\ account.expiresAt + expiryGracePeriodMs < t THEN FALSE
  ELSE account.isAvailable # FALSE
isAccountAvailableNoGraceInstant(account, t) ==
  IF Truthy(account.autoRecoverAt) /\ account.autoRecoverAt <= t THEN TRUE
  ELSE IF Truthy(account.autoRecoverAt) /\ account.autoRecoverAt > t THEN FALSE
  ELSE IF Truthy(account.cooldownUntil) /\ account.cooldownUntil > t THEN FALSE
  ELSE IF OrZero(account.errorCount) >= maxErrorCount THEN FALSE
  ELSE IF Truthy(account.expiresAt) /\ account.expiresAt + expiryGracePeriodMs <= t THEN FALSE
  ELSE account.isAvailable # FALSE
isAccountAvailableIgnoresExpiry(account, t) ==
  IF Truthy(account.autoRecoverAt) /\ account.autoRecoverAt <= t THEN TRUE
  ELSE IF Truthy(account.autoRecoverAt) /\ account.autoRecoverAt > t THEN FALSE
  ELSE IF Truthy(account.cooldownUntil) /\ account.cooldownUntil > t THEN FALSE
  ELSE IF OrZero(account.errorCount) >= maxErrorCount THEN FALSE
  ELSE account.isAvailable # FALSE
isAccountAvailable(account, t) ==
  IF Truthy(account.autoRecoverAt) /\ account.autoRecoverAt <= t THEN TRUE
  ELSE IF Truthy(account.autoRecoverAt) /\ account.autoRecoverAt > t THEN FALSE
  ELSE IF Truthy(account.cooldownUntil) /\ account.cooldownUntil > t THEN FALSE
  ELSE IF OrZero(account.errorCount) >= maxErrorCount THEN FALSE
  ELSE IF Truthy(account.expiresAt) /\ account.expiresAt + expiryGracePeriodMs < t THEN FALSE
  ELSE account.isAvailable # FALSE

\* isAccountAvailable's write: the auto-recovery, stored under the record's own id.
autoRecovers(account, t) == Truthy(account.autoRecoverAt) /\ account.autoRecoverAt <= t
autoRecoverKeepsErrors(m, account, t) ==
  IF autoRecovers(account, t)
  THEN MapSet(m, account.id, [account EXCEPT !.isAvailable = TRUE,
                                             !.autoRecoverAt = undefined,
                                             !.cooldownUntil = undefined])
  ELSE m
autoRecover(m, account, t) ==
  IF autoRecovers(account, t)
  THEN MapSet(m, account.id, [account EXCEPT !.isAvailable = TRUE,
                                             !.autoRecoverAt = undefined,
                                             !.errorCount = 0,
                                             !.cooldownUntil = undefined])
  ELSE m

\* getAccountWithShortestCooldown: the first account of the least wait, or null.
Wait(account, t) == Max(0, OrZero(account.cooldownUntil) - t)
getAccountWithShortestCooldown(list, t) ==
  IF Len(list) = 0 THEN [kind |-> "null", val |-> NoValue]
  ELSE LET best == CHOOSE i \in 1..Len(list) :
                     /\ \A j \in 1..Len(list) : Wait(list[i], t) <= Wait(list[j], t)
                     /\ \A j \in 1..(i - 1) : Wait(list[j], t) > Wait(list[i], t)
       IN [kind |-> "account", val |-> list[best]]

\* ------------------------------------------------------------- operations
\* Every call and every clock advance is one step of the behaviour.
Budget == steps < MaxSteps /\ steps' = steps + 1

\* The ProxyAccount object of a caller that supplies id and expiresAt only.
Supplied(id, expiresAt) ==
  [key |-> id, id |-> id, expiresAt |-> expiresAt,
   cooldownUntil |-> undefined, autoRecoverAt |-> undefined,
   isAvailable |-> TRUE, requestCount |-> 0, errorCount |-> 0, lastUsed |-> 0]

\* The record addAccount stores: { ...account, isAvailable: true, requestCount: 0, ... }
addedKeepsCounters(account) == [account EXCEPT !.isAvailable = TRUE, !.lastUsed = 0]
added(account) ==
  [account EXCEPT !.isAvailable = TRUE, !.requestCount = 0, !.errorCount = 0, !.lastUsed = 0]

addAccount(account) ==
  /\ Budget
  /\ accounts' = MapSet(accounts, account.id, added(account))
  /\ accountStats' = StatsSet(accountStats, account.id, ZeroStats)
  /\ ret' = Void("addAccount", account.id, account)
  /\ Tracked
  /\ UNCHANGED <<currentIndex, now>>

removeAccount(accountId) ==
  /\ Budget
  /\ accounts' = MapDelete(accounts, accountId)
  /\ accountStats' = StatsDelete(accountStats, accountId)
  /\ ret' = Void("removeAccount", accountId, "-")
  /\ Tracked
  /\ UNCHANGED <<currentIndex, now>>

\* this.currentIndex = (this.currentIndex + 1) % accountList.length
advanceStuck(index, length) == index % length
advance(index, length) == (index + 1) % length

\* One isAccountAvailable(account, now) call, as the calling loop observes it.
Eval(account) == [account |-> account, result |-> isAccountAvailable(account, now)]

\* The while loop of getNextAccount over the snapshot accountList.
RECURSIVE scan(_, _, _, _, _)
scan(m, accountList, index, attempts, evals) ==
  IF attempts >= Len(accountList)
  THEN LET r == getAccountWithShortestCooldown(accountList, now)
       IN [kind |-> r.kind, val |-> r.val, accounts |-> m, index |-> index, evals |-> evals]
  ELSE LET next == advance(index, Len(accountList))
       IN IF index >= Len(accountList)
          THEN \* accountList[currentIndex] is undefined: reading account.autoRecoverAt throws
               [kind |-> "throw", val |-> NoValue, accounts |-> m, index |-> next,
                evals |-> evals]
          ELSE LET account == accountList[index + 1]
               IN IF isAccountAvailable(account, now)
                  THEN [kind |-> "account", val |-> account,
                        accounts |-> autoRecover(m, account, now), index |-> next,
                        evals |-> Append(evals, Eval(account))]
                  ELSE scan(m, accountList, next, attempts + 1, Append(evals, Eval(account)))

getNextAccount ==
  /\ Budget
  /\ LET r == IF Len(accounts) = 0
              THEN [kind |-> "null", val |-> NoValue, accounts |-> accounts,
                    index |-> currentIndex, evals |-> << >>]
              ELSE scan(accounts, accounts, currentIndex, 0, << >>)
     IN /\ accounts' = r.accounts
        /\ currentIndex' = r.index
        /\ ret' = Returned("getNextAccount", "-", "-", r.kind, r.val, r.evals)
  /\ Tracked
  /\ UNCHANGED <<accountStats, now>>

\* { ...account, ...updates }
getAccount(accountId) ==
  /\ Budget
  /\ ret' = IF MapHas(accounts, accountId)
            THEN Returned("getAccount", accountId, "-", "account",
                          MapGet(accounts, accountId), << >>)
            ELSE Returned("getAccount", accountId, "-", "null", NoValue, << >>)
  /\ UNCHANGED <<accounts, accountStats, currentIndex, now>>
  /\ Tracked

Merge(account, updates) ==
  [f \in DOMAIN account |-> IF f \in DOMAIN updates THEN updates[f] ELSE account[f]]

updateAccountUpserts(accountId, updates) ==
  /\ Budget
  /\ accounts' = MapSet(accounts, accountId,
                    Merge(IF MapHas(accounts, accountId) THEN MapGet(accounts, accountId)
                          ELSE added(Supplied(accountId, undefined)), updates))
  /\ ret' = Void("updateAccount", accountId, updates)
  /\ Tracked
  /\ UNCHANGED <<accountStats, currentIndex, now>>

updateAccount(accountId, updates) ==
  /\ Budget
  /\ accounts' = IF MapHas(accounts, accountId)
                 THEN MapSet(accounts, accountId, Merge(MapGet(accounts, accountId), updates))
                 ELSE accounts
  /\ ret' = Void("updateAccount", accountId, updates)
  /\ Tracked
  /\ UNCHANGED <<accountStats, currentIndex, now>>

\* The for loop of getNextAvailableAccount over the snapshot accountList.
RECURSIVE scanIncluding(_, _, _, _, _)
scanIncluding(m, accountList, i, excludeAccountId, evals) ==
  IF i > Len(accountList)
  THEN LET r == getAccountWithShortestCooldown(accountList, now)
       IN [kind |-> r.kind, val |-> r.val, accounts |-> m, evals |-> evals]
  ELSE LET account == accountList[i]
       IN IF isAccountAvailable(account, now)
          THEN [kind |-> "account", val |-> account,
                accounts |-> autoRecover(m, account, now),
                evals |-> Append(evals, Eval(account))]
          ELSE scanIncluding(m, accountList, i + 1, excludeAccountId,
                             Append(evals, Eval(account)))
RECURSIVE scanExcluding(_, _, _, _, _)
scanExcluding(m, accountList, i, excludeAccountId, evals) ==
  IF i > Len(accountList)
  THEN LET otherAccounts == SelectSeq(accountList, LAMBDA a : a.id # excludeAccountId)
           r == getAccountWithShortestCooldown(otherAccounts, now)
       IN [kind |-> r.kind, val |-> r.val, accounts |-> m, evals |-> evals]
  ELSE LET account == accountList[i]
       IN IF account.id = excludeAccountId
          THEN scanExcluding(m, accountList, i + 1, excludeAccountId, evals)
          ELSE IF isAccountAvailable(account, now)
          THEN [kind |-> "account", val |-> account,
                accounts |-> autoRecover(m, account, now),
                evals |-> Append(evals, Eval(account))]
          ELSE scanExcluding(m, accountList, i + 1, excludeAccountId,
                             Append(evals, Eval(account)))

getNextAvailableAccount(excludeAccountId) ==
  /\ Budget
  /\ LET r == IF Len(accounts) <= 1
              THEN [kind |-> "null", val |-> NoValue, accounts |-> accounts, evals |-> << >>]
              ELSE scanExcluding(accounts, accounts, 1, excludeAccountId, << >>)
     IN /\ accounts' = r.accounts
        /\ ret' = Returned("getNextAvailableAccount", excludeAccountId, "-",
                           r.kind, r.val, r.evals)
  /\ Tracked
  /\ UNCHANGED <<accountStats, currentIndex, now>>

\* The record recordSuccess stores.
succeededClearsCooldown(account, t) ==
  [account EXCEPT !.requestCount = OrZero(account.requestCount) + 1, !.errorCount = 0,
                  !.lastUsed = t, !.isAvailable = TRUE, !.cooldownUntil = undefined]
succeeded(account, t) ==
  [account EXCEPT !.requestCount = OrZero(account.requestCount) + 1,
                  !.errorCount = 0,
                  !.lastUsed = t,
                  !.isAvailable = TRUE]

recordSuccess(accountId, tokens) ==
  /\ Budget
  /\ accounts' =
       IF MapHas(accounts, accountId)
       THEN LET account == MapGet(accounts, accountId)
            IN MapSet(accounts, accountId, succeeded(account, now))
       ELSE accounts
  /\ accountStats' =
       IF accountId \in DOMAIN accountStats
       THEN LET stats == accountStats[accountId]
            IN StatsSet(accountStats, accountId,
                        [stats EXCEPT !.requests = stats.requests + 1,
                                      !.tokens = stats.tokens + tokens,
                                      !.lastUsed = now])
       ELSE accountStats
  /\ ret' = Void("recordSuccess", accountId, tokens)
  /\ Tracked
  /\ UNCHANGED <<currentIndex, now>>

\* The switch of recordError: the four locals after it.
errorPolicyCountsNetwork(account, errorType, t) ==
  LET errorCount == OrZero(account.errorCount)
      cooldownUntil == OrZero(account.cooldownUntil)
      autoRecoverAt == account.autoRecoverAt
      isAvailable == account.isAvailable # FALSE
  IN CASE errorType = "quota" ->
            [errorCount |-> errorCount, cooldownUntil |-> t + quotaResetMs,
             autoRecoverAt |-> autoRecoverAt, isAvailable |-> isAvailable]
       [] errorType = "auth" ->
            [errorCount |-> errorCount, cooldownUntil |-> cooldownUntil,
             autoRecoverAt |-> t + autoRecoverMs, isAvailable |-> FALSE]
       [] errorType = "network" ->
            [errorCount |-> errorCount + 1, cooldownUntil |-> t + networkCooldownMs,
             autoRecoverAt |-> autoRecoverAt, isAvailable |-> isAvailable]
       [] errorType = "server" ->
            [errorCount |-> errorCount + 1, cooldownUntil |-> t + serverCooldownMs,
             autoRecoverAt |-> autoRecoverAt, isAvailable |-> isAvailable]
       [] OTHER ->
            [errorCount |-> errorCount + 1,
             cooldownUntil |-> IF errorCount + 1 >= maxErrorCount
                               THEN t + cooldownMs ELSE cooldownUntil,
             autoRecoverAt |-> autoRecoverAt, isAvailable |-> isAvailable]
errorPolicyOverwritesCount(account, errorType, t) ==
  LET errorCount == OrZero(account.errorCount)
      cooldownUntil == OrZero(account.cooldownUntil)
      autoRecoverAt == account.autoRecoverAt
      isAvailable == account.isAvailable # FALSE
  IN CASE errorType = "quota" ->
            [errorCount |-> errorCount, cooldownUntil |-> t + quotaResetMs,
             autoRecoverAt |-> autoRecoverAt, isAvailable |-> isAvailable]
       [] errorType = "auth" ->
            [errorCount |-> errorCount, cooldownUntil |-> cooldownUntil,
             autoRecoverAt |-> t + autoRecoverMs, isAvailable |-> FALSE]
       [] errorType = "network" ->
            [errorCount |-> errorCount, cooldownUntil |-> t + networkCooldownMs,
             autoRecoverAt |-> autoRecoverAt, isAvailable |-> isAvailable]
       [] errorType = "server" ->
            [errorCount |-> 1, cooldownUntil |-> t + serverCooldownMs,
             autoRecoverAt |-> autoRecoverAt, isAvailable |-> isAvailable]
       [] OTHER ->
            [errorCount |-> 1, cooldownUntil |-> cooldownUntil,
             autoRecoverAt |-> autoRecoverAt, isAvailable |-> isAvailable]
errorPolicyAlwaysCools(account, errorType, t) ==
  LET errorCount == OrZero(account.errorCount)
      cooldownUntil == OrZero(account.cooldownUntil)
      autoRecoverAt == account.autoRecoverAt
      isAvailable == account.isAvailable # FALSE
  IN CASE errorType = "quota" ->
            [errorCount |-> errorCount, cooldownUntil |-> t + quotaResetMs,
             autoRecoverAt |-> autoRecoverAt, isAvailable |-> isAvailable]
       [] errorType = "auth" ->
            [errorCount |-> errorCount, cooldownUntil |-> cooldownUntil,
             autoRecoverAt |-> t + autoRecoverMs, isAvailable |-> FALSE]
       [] errorType = "network" ->
            [errorCount |-> errorCount, cooldownUntil |-> t + networkCooldownMs,
             autoRecoverAt |-> autoRecoverAt, isAvailable |-> isAvailable]
       [] errorType = "server" ->
            [errorCount |-> errorCount + 1, cooldownUntil |-> t + serverCooldownMs,
             autoRecoverAt |-> autoRecoverAt, isAvailable |-> isAvailable]
       [] OTHER ->
            [errorCount |-> errorCount + 1, cooldownUntil |-> t + cooldownMs,
             autoRecoverAt |-> autoRecoverAt, isAvailable |-> isAvailable]
errorPolicy(account, errorType, t) ==
  LET errorCount == OrZero(account.errorCount)
      cooldownUntil == OrZero(account.cooldownUntil)
      autoRecoverAt == account.autoRecoverAt
      isAvailable == account.isAvailable # FALSE
  IN CASE errorType = "quota" ->
            [errorCount |-> errorCount, cooldownUntil |-> t + quotaResetMs,
             autoRecoverAt |-> autoRecoverAt, isAvailable |-> isAvailable]
       [] errorType = "auth" ->
            [errorCount |-> errorCount, cooldownUntil |-> cooldownUntil,
             autoRecoverAt |-> t + autoRecoverMs, isAvailable |-> FALSE]
       [] errorType = "network" ->
            [errorCount |-> errorCount, cooldownUntil |-> t + networkCooldownMs,
             autoRecoverAt |-> autoRecoverAt, isAvailable |-> isAvailable]
       [] errorType = "server" ->
            [errorCount |-> errorCount + 1, cooldownUntil |-> t + serverCooldownMs,
             autoRecoverAt |-> autoRecoverAt, isAvailable |-> isAvailable]
       [] OTHER ->
            [errorCount |-> errorCount + 1,
             cooldownUntil |-> IF errorCount + 1 >= maxErrorCount
                               THEN t + cooldownMs ELSE cooldownUntil,
             autoRecoverAt |-> autoRecoverAt, isAvailable |-> isAvailable]

recordErrorAuthReturns(accountId, errorType) ==
  /\ Budget
  /\ IF MapHas(accounts, accountId) /\ errorType = "auth"
     THEN /\ accounts' = MapSet(accounts, accountId,
                                [MapGet(accounts, accountId) EXCEPT
                                   !.isAvailable = FALSE,
                                   !.autoRecoverAt = now + autoRecoverMs])
          /\ UNCHANGED accountStats
     ELSE IF MapHas(accounts, accountId)
     THEN LET account == MapGet(accounts, accountId)
              p == errorPolicy(account, errorType, now)
          IN /\ accounts' = MapSet(accounts, accountId,
                                   [account EXCEPT !.errorCount = p.errorCount,
                                                   !.cooldownUntil = p.cooldownUntil,
                                                   !.autoRecoverAt = p.autoRecoverAt,
                                                   !.isAvailable = p.isAvailable,
                                                   !.lastUsed = now])
             /\ accountStats' =
                  IF accountId \in DOMAIN accountStats
                  THEN LET stats == accountStats[accountId]
                       IN StatsSet(accountStats, accountId,
                                   [stats EXCEPT !.errors = stats.errors + 1,
                                                 !.lastUsed = now])
                  ELSE accountStats
     ELSE UNCHANGED <<accounts, accountStats>>
  /\ ret' = Void("recordError", accountId, errorType)
  /\ Tracked
  /\ UNCHANGED <<currentIndex, now>>

recordError(accountId, errorType) ==
  /\ Budget
  /\ IF MapHas(accounts, accountId)
     THEN LET account == MapGet(accounts, accountId)
              p == errorPolicy(account, errorType, now)
          IN /\ accounts' = MapSet(accounts, accountId,
                                   [account EXCEPT !.errorCount = p.errorCount,
                                                   !.cooldownUntil = p.cooldownUntil,
                                                   !.autoRecoverAt = p.autoRecoverAt,
                                                   !.isAvailable = p.isAvailable,
                                                   !.lastUsed = now])
             /\ accountStats' =
                  IF accountId \in DOMAIN accountStats
                  THEN LET stats == accountStats[accountId]
                       IN StatsSet(accountStats, accountId,
                                   [stats EXCEPT !.errors = stats.errors + 1,
                                                 !.lastUsed = now])
                  ELSE accountStats
     ELSE UNCHANGED <<accounts, accountStats>>
  /\ ret' = Void("recordError", accountId, errorType)
  /\ lastError' =
       IF MapHas(accounts, accountId)
       THEN [Track(accounts') EXCEPT ![accountId] =
               [type |-> errorType,
                n |-> IF lastError[accountId].type = errorType
                      THEN lastError[accountId].n + 1 ELSE 1,
                at |-> now]]
       ELSE lastError
  /\ UNCHANGED <<currentIndex, now>>

markNeedsRefresh(accountId) ==
  /\ Budget
  /\ accounts' =
       IF MapHas(accounts, accountId)
       THEN LET account == MapGet(accounts, accountId)
            IN MapSet(accounts, accountId,
                      [account EXCEPT !.isAvailable = FALSE,
                                      !.autoRecoverAt = now + refreshRecoverMs])
       ELSE accounts
  /\ ret' = Void("markNeedsRefresh", accountId, "-")
  /\ Tracked
  /\ UNCHANGED <<accountStats, currentIndex, now>>

resetZeroesStats ==
  /\ Budget
  /\ accounts' = [i \in 1..Len(accounts) |->
                    [accounts[i] EXCEPT !.isAvailable = TRUE,
                                        !.errorCount = 0,
                                        !.cooldownUntil = undefined]]
  /\ accountStats' = [k \in DOMAIN accountStats |-> ZeroStats]
  /\ currentIndex' = 0
  /\ ret' = Void("reset", "-", "-")
  /\ Tracked
  /\ UNCHANGED now

reset ==
  /\ Budget
  /\ accounts' = [i \in 1..Len(accounts) |->
                    [accounts[i] EXCEPT !.isAvailable = TRUE,
                                        !.errorCount = 0,
                                        !.cooldownUntil = undefined]]
  /\ currentIndex' = 0
  /\ ret' = Void("reset", "-", "-")
  /\ Tracked
  /\ UNCHANGED <<accountStats, now>>

clear ==
  /\ Budget
  /\ accounts' = << >>
  /\ accountStats' = << >>
  /\ currentIndex' = 0
  /\ ret' = Void("clear", "-", "-")
  /\ Tracked
  /\ UNCHANGED now

\* The loop of the availableCount getter over the live Map.
RECURSIVE countAvailable(_, _, _, _)
countAvailable(m, i, count, evals) ==
  IF i > Len(m) THEN [count |-> count, accounts |-> m, evals |-> evals]
  ELSE countAvailable(autoRecover(m, m[i], now), i + 1,
                      IF isAccountAvailable(m[i], now) THEN count + 1 ELSE count,
                      Append(evals, Eval(m[i])))

availableCount ==
  /\ Budget
  /\ LET r == countAvailable(accounts, 1, 0, << >>)
     IN /\ accounts' = r.accounts
        /\ ret' = Returned("availableCount", "-", "-", "number", r.count, r.evals)
  /\ Tracked
  /\ UNCHANGED <<accountStats, currentIndex, now>>

getAccountDiagnostics(accountId) ==
  /\ Budget
  /\ IF MapHas(accounts, accountId)
     THEN LET account == MapGet(accounts, accountId)
          IN /\ accounts' = autoRecover(accounts, account, now)
             /\ ret' = Returned("getAccountDiagnostics", accountId, "-", "object",
                  [id |-> account.id,
                   isAvailable |-> account.isAvailable,
                   errorCount |-> account.errorCount,
                   cooldownUntil |-> account.cooldownUntil,
                   autoRecoverAt |-> account.autoRecoverAt,
                   expiresAt |-> account.expiresAt,
                   isCurrentlyAvailable |-> isAccountAvailable(account, now),
                   cooldownRemaining |-> IF Truthy(account.cooldownUntil)
                                         THEN Max(0, account.cooldownUntil - now) ELSE 0,
                   autoRecoverRemaining |-> IF Truthy(account.autoRecoverAt)
                                            THEN Max(0, account.autoRecoverAt - now) ELSE 0,
                   tokenExpiresIn |-> IF Truthy(account.expiresAt)
                                      THEN account.expiresAt - now ELSE undefined],
                  <<Eval(account)>>)
     ELSE /\ accounts' = accounts
          /\ ret' = Returned("getAccountDiagnostics", accountId, "-", "null", NoValue, << >>)
  /\ Tracked
  /\ UNCHANGED <<accountStats, currentIndex, now>>

\* The record both resetAccountState and resetAllAccountStates store.
resetStateKeepsRecovery(account) ==
  [account EXCEPT !.isAvailable = TRUE, !.errorCount = 0, !.cooldownUntil = undefined]
resetState(account) ==
  [account EXCEPT !.isAvailable = TRUE, !.errorCount = 0,
                  !.cooldownUntil = undefined, !.autoRecoverAt = undefined]

resetAccountState(accountId) ==
  /\ Budget
  /\ IF MapHas(accounts, accountId)
     THEN /\ accounts' = MapSet(accounts, accountId, resetState(MapGet(accounts, accountId)))
          /\ ret' = Returned("resetAccountState", accountId, "-", "boolean", TRUE, << >>)
     ELSE /\ accounts' = accounts
          /\ ret' = Returned("resetAccountState", accountId, "-", "boolean", FALSE, << >>)
  /\ Tracked
  /\ UNCHANGED <<accountStats, currentIndex, now>>

resetAllAccountStates ==
  /\ Budget
  /\ accounts' = [i \in 1..Len(accounts) |-> resetState(accounts[i])]
  /\ ret' = Returned("resetAllAccountStates", "-", "-", "number", Len(accounts), << >>)
  /\ Tracked
  /\ UNCHANGED <<accountStats, currentIndex, now>>

\* ------------------------------------------------------------------ clock
\* Date.now() moves to the last millisecond before a pending deadline or onto it: the
\* end of a cooldown, an auto-recovery time, the first instant a token is past its grace.
Deadlines ==
  UNION {{accounts[i].cooldownUntil, accounts[i].autoRecoverAt,
          IF Truthy(accounts[i].expiresAt)
          THEN accounts[i].expiresAt + expiryGracePeriodMs + 1 ELSE undefined}
         : i \in 1..Len(accounts)}
TickTargets == {t \in UNION {{d - 1, d} : d \in Deadlines} : t > now}
Tick(t) ==
  /\ Budget
  /\ now' = t
  /\ ret' = Void("tick", "-", t)
  /\ UNCHANGED <<accounts, accountStats, currentIndex, lastError>>

\* ---------------------------------------------------------- specification
\* The pool after construction, and every call on it.
Init ==
  /\ accounts = << >>
  /\ accountStats = << >>
  /\ currentIndex = 0
  /\ now = StartTime
  /\ steps = 0
  /\ ret = Void("constructor", "-", "-")
  /\ lastError = << >>

Next ==
  \/ \E id \in Ids, e \in {undefined, now + TokenLifetime} : addAccount(Supplied(id, e))
  \/ \E id \in Ids : removeAccount(id)
  \/ \E id \in Ids : updateAccount(id, [expiresAt |-> now + TokenLifetime])
  \/ getNextAccount
  \/ \E id \in Ids : getAccount(id)
  \/ \E id \in Ids : getNextAvailableAccount(id)
  \/ \E id \in Ids : recordSuccess(id, TokensPerRequest)
  \/ \E id \in Ids, errorType \in ErrorType : recordError(id, errorType)
  \/ \E id \in Ids : markNeedsRefresh(id)
  \/ reset
  \/ clear
  \/ availableCount
  \/ \E id \in Ids : getAccountDiagnostics(id)
  \/ \E id \in Ids : resetAccountState(id)
  \/ resetAllAccountStates
  \/ \E t \in TickTargets : Tick(t)

Spec == Init /\ [][Next]_vars

\* updateAccount merges any Partial<ProxyAccount>: besides the calls above, the ones
\* whose updates carry an id field.
NextIdUpdate ==
  \/ Next
  \/ \E id \in Ids, newId \in Ids : updateAccount(id, [id |-> newId])

SpecIdUpdate == Init /\ [][NextIdUpdate]_vars

\* ------------------------------------------------ the selection scenarios
\* Records an account can hold at StartTime and pass isAccountAvailable with: fresh, after
\* two unknown errors, after an ended network cooldown, at a due auto-recovery, and at a
\* due auto-recovery with the token expired beyond its grace period.
Fresh(id) ==
  [key |-> id, id |-> id, expiresAt |-> undefined, cooldownUntil |-> undefined,
   autoRecoverAt |-> undefined, isAvailable |-> TRUE, requestCount |-> 0,
   errorCount |-> 0, lastUsed |-> 0]
PassingRecords(id) ==
  { Fresh(id),
    [Fresh(id) EXCEPT !.errorCount = maxErrorCount - 1, !.cooldownUntil = 0,
                      !.lastUsed = StartTime - 1],
    [Fresh(id) EXCEPT !.cooldownUntil = StartTime, !.lastUsed = StartTime - networkCooldownMs],
    [Fresh(id) EXCEPT !.autoRecoverAt = StartTime, !.isAvailable = FALSE, !.cooldownUntil = 0,
                      !.lastUsed = StartTime - autoRecoverMs],
    [Fresh(id) EXCEPT !.autoRecoverAt = StartTime, !.isAvailable = FALSE, !.cooldownUntil = 0,
                      !.lastUsed = StartTime - autoRecoverMs,
                      !.expiresAt = StartTime - autoRecoverMs + TokenLifetime] }
\* The stats of an account whose only calls were the recordError calls that left it so.
StatsOf(account) ==
  [ZeroStats EXCEPT !.errors = IF account.lastUsed = 0 THEN 0 ELSE Max(1, account.errorCount),
                    !.lastUsed = account.lastUsed]
\* The pools of one to three such accounts, in insertion order.
PassingPools ==
  UNION {{p \in [1..n -> UNION {PassingRecords(PoolIds[i]) : i \in 1..n}] :
            \A i \in 1..n : p[i].key = PoolIds[i]} : n \in 1..Len(PoolIds)}

InitRoundRobin ==
  /\ accounts \in PassingPools
  /\ accountStats = [k \in Keys(accounts) |-> StatsOf(MapGet(accounts, k))]
  /\ currentIndex = 0
  /\ now = StartTime
  /\ steps = 0
  /\ ret = Void("constructor", "-", "-")
  /\ lastError = [k \in Keys(accounts) |-> NoError]

\* getNextAccount, call after call, with no other operation in between.
SpecRoundRobin == InitRoundRobin /\ [][getNextAccount]_vars

\* ------------------------------------------------- the fallback scenarios
\* Records an account can hold at StartTime after its last call: fresh, in the cooldown
\* of a network error, in the cooldown of a server error, waiting for the auto-recovery
\* an auth error set.
SelectionRecords(id) ==
  { Fresh(id),
    [Fresh(id) EXCEPT !.cooldownUntil = StartTime + networkCooldownMs, !.lastUsed = StartTime],
    [Fresh(id) EXCEPT !.cooldownUntil = StartTime + serverCooldownMs, !.errorCount = 1,
                      !.lastUsed = StartTime],
    [Fresh(id) EXCEPT !.autoRecoverAt = StartTime + autoRecoverMs, !.isAvailable = FALSE,
                      !.cooldownUntil = 0, !.lastUsed = StartTime] }
SelectionPools ==
  UNION {{p \in [1..n -> UNION {SelectionRecords(PoolIds[i]) : i \in 1..n}] :
            \A i \in 1..n : p[i].key = PoolIds[i]} : n \in 1..Len(PoolIds)}

\* Such a pool with the cursor wherever getNextAccount calls on the pool, or on the
\* larger pool it was before removeAccount calls, have left it.
InitSelection ==
  /\ accounts \in SelectionPools
  /\ accountStats = [k \in Keys(accounts) |-> StatsOf(MapGet(accounts, k))]
  /\ currentIndex \in 0..(Len(PoolIds) - 1)
  /\ now = StartTime
  /\ steps = 0
  /\ ret = Void("constructor", "-", "-")
  /\ lastError = [k \in Keys(accounts) |-> NoError]

\* The two selecting calls, and the clock.
NextSelection ==
  \/ getNextAccount
  \/ \E i \in 1..Len(PoolIds) : getNextAvailableAccount(PoolIds[i])
  \/ \E t \in TickTargets : Tick(t)

SpecSelection == InitSelection /\ [][NextSelection]_vars

\* ------------------------------------------------- the addAccount scenarios
\* The objects callers pass to addAccount: a new account, with or without a token expiry,
\* and an account object read from the pool earlier, carrying the health fields and
\* counters it had then.
SuppliedAccounts(id) ==
  { Supplied(id, undefined),
    Supplied(id, StartTime + TokenLifetime),
    [Supplied(id, undefined) EXCEPT !.cooldownUntil = StartTime + serverCooldownMs,
                                    !.autoRecoverAt = StartTime + autoRecoverMs,
                                    !.isAvailable = FALSE,
                                    !.errorCount = maxErrorCount,
                                    !.requestCount = 1,
                                    !.lastUsed = StartTime] }

\* addAccount with any of them, among the calls that move the cursor, the counters and
\* the stats.
NextAdd ==
  \/ \E id \in Ids : \E account \in SuppliedAccounts(id) : addAccount(account)
  \/ \E id \in Ids : removeAccount(id)
  \/ getNextAccount
  \/ \E id \in Ids : recordSuccess(id, TokensPerRequest)
  \/ \E id \in Ids : recordError(id, "server")

SpecAdd == Init /\ [][NextAdd]_vars

\* Two accounts on which errors are reported and which are then left alone: no success,
\* no reset, no addAccount or updateAccount; selection goes on and time passes.
InitErrors ==
  /\ accounts \in {<<Fresh(PoolIds[1]), b>> :
                     b \in {Fresh(PoolIds[2]),
                            [Fresh(PoolIds[2]) EXCEPT !.expiresAt = StartTime + TokenLifetime]}}
  /\ accountStats = [k \in Keys(accounts) |-> ZeroStats]
  /\ currentIndex = 0
  /\ now = StartTime
  /\ steps = 0
  /\ ret = Void("constructor", "-", "-")
  /\ lastError = [k \in Keys(accounts) |-> NoError]
NextErrors ==
  \/ \E i \in 1..2, errorType \in ErrorType : recordError(PoolIds[i], errorType)
  \/ getNextAccount
  \/ \E t \in TickTargets : Tick(t)
SpecErrors == InitErrors /\ [][NextErrors]_vars

\* The first of two accounts has just had a quota error reported, at StartTime; it is
\* never reset, re-added or updated, while errors and successes go on being recorded.
InitCooldown ==
  /\ accounts = <<[Fresh(PoolIds[1]) EXCEPT !.cooldownUntil = StartTime + quotaResetMs,
                                            !.lastUsed = StartTime],
                  Fresh(PoolIds[2])>>
  /\ accountStats = [k \in Keys(accounts) |->
                       IF k = PoolIds[1]
                       THEN [ZeroStats EXCEPT !.errors = 1, !.lastUsed = StartTime]
                       ELSE ZeroStats]
  /\ currentIndex \in {0, 1}
  /\ now = StartTime
  /\ steps = 0
  /\ ret = Void("recordError", PoolIds[1], "quota")
  /\ lastError = [k \in Keys(accounts) |->
                    IF k = PoolIds[1] THEN [type |-> "quota", n |-> 1, at |-> StartTime]
                    ELSE NoError]
NextCooldown ==
  \/ \E i \in 1..2, errorType \in ErrorType : recordError(PoolIds[i], errorType)
  \/ recordSuccess(PoolIds[1], TokensPerRequest)
  \/ getNextAccount
  \/ \E t \in TickTargets : Tick(t)
SpecCooldown == InitCooldown /\ [][NextCooldown]_vars

\* ------------------------------------------- the completing-request scenarios
\* Two accounts at StartTime, requests in flight on the first: it is fresh, or
\* markNeedsRefresh has just been called on it; the cursor is where the dispatching
\* getNextAccount calls left it.
InFlightRecords(id) ==
  { Fresh(id),
    [Fresh(id) EXCEPT !.isAvailable = FALSE, !.autoRecoverAt = StartTime + refreshRecoverMs] }

InitInFlight ==
  /\ accounts \in {<<a, Fresh(PoolIds[2])>> : a \in InFlightRecords(PoolIds[1])}
  /\ accountStats = [k \in Keys(accounts) |-> ZeroStats]
  /\ currentIndex \in {0, 1}
  /\ now = StartTime
  /\ steps = 0
  /\ ret = Void("constructor", "-", "-")
  /\ lastError = [k \in Keys(accounts) |-> NoError]

\* The requests on the first account complete with a server or unknown error, while
\* requests are dispatched and the requests of the other account complete.
NextInFlight ==
  \/ \E errorType \in {"server", "unknown"} : recordError(PoolIds[1], errorType)
  \/ getNextAccount
  \/ recordSuccess(PoolIds[2], TokensPerRequest)
  \/ \E errorType \in ErrorType : recordError(PoolIds[2], errorType)
  \/ \E t \in TickTargets : Tick(t)

SpecInFlight == InitInFlight /\ [][NextInFlight]_vars

\* --------------------------------------------- the availability scenarios
\* The health fields an account can hold at StartTime, each around the value
\* isAccountAvailable compares it with (updateAccount can store any of them).
AnyRecords(id) ==
  { [Fresh(id) EXCEPT !.expiresAt = e, !.cooldownUntil = c, !.autoRecoverAt = r,
                      !.errorCount = n, !.isAvailable = v] :
      e \in {undefined, StartTime - expiryGracePeriodMs - 1, StartTime - expiryGracePeriodMs,
             StartTime - expiryGracePeriodMs + 1},
      c \in {undefined, 0, StartTime, StartTime + 1},
      r \in {undefined, StartTime, StartTime + 1},
      n \in {0, maxErrorCount - 1, maxErrorCount},
      v \in BOOLEAN }

InitPredicate ==
  /\ accounts \in {<<a>> : a \in AnyRecords(PoolIds[1])}
  /\ accountStats = [k \in Keys(accounts) |-> ZeroStats]
  /\ currentIndex = 0
  /\ now = StartTime
  /\ steps = 0
  /\ ret = Void("constructor", "-", "-")
  /\ lastError = [k \in Keys(accounts) |-> NoError]

\* The calls that evaluate isAccountAvailable.
NextPredicate ==
  \/ getNextAccount
  \/ availableCount
  \/ getAccountDiagnostics(PoolIds[1])
  \/ \E t \in TickTargets : Tick(t)

SpecPredicate == InitPredicate /\ [][NextPredicate]_vars

\* ----------------------------------------------------------------- claims
\* The token is expired beyond the grace period.
ExpiredBeyondGrace(account, t) ==
  Truthy(account.expiresAt) /\ account.expiresAt + expiryGracePeriodMs < t
\* An auto-recovery deadline has passed and the recovery has not been applied yet.
RecoveryDue(account, t) == Truthy(account.autoRecoverAt) /\ account.autoRecoverAt <= t

\* C1: getNextAccount returns null if and only if the pool is empty; on a non-empty pool
\* it completes normally and returns an account that is a member of the pool.
C1_NextAccountNullIffEmpty ==
  ret.op = "getNextAccount" =>
    /\ ret.kind # "throw"
    /\ (ret.kind = "null") <=> (Len(accounts) = 0)
    /\ ret.kind = "account" => MapHas(accounts, ret.val.key)

\* C2: the cursor is in [0, number of accounts) whenever the pool is non-empty, and 0
\* when the pool is empty.
C2_CursorInRange ==
  IF Len(accounts) = 0 THEN currentIndex = 0
  ELSE currentIndex >= 0 /\ currentIndex < Len(accounts)

\* The k-th of a run of getNextAccount calls returned the account at insertion
\* position ((k - 1) mod N) + 1: each account once in N calls, then the first again.
InRotation ==
  ret.op = "getNextAccount" =>
    /\ ret.kind = "account"
    /\ ret.val.key = accounts[((steps - 1) % Len(accounts)) + 1].key

\* C3, as claimed: from a pool whose N accounts all pass the availability predicate, the
\* cursor at 0, consecutive getNextAccount calls return the accounts in rotation.
C3_RoundRobinFromAllPassing == InRotation

\* C3, amended: so they do when, besides, no account's token is expired beyond the grace
\* period (such an account passes once, through a due auto-recovery, and fails afterwards).
C3_RoundRobinFairness ==
  (\A i \in 1..Len(accounts) : ~ExpiredBeyondGrace(accounts[i], now)) => InRotation

\* Three accounts, one of them auto-recovered on the way, and the fourth call wraps.
C3_Witness ==
  /\ Len(accounts) = 3
  /\ \A i \in 1..3 : ~ExpiredBeyondGrace(accounts[i], now)
  /\ steps = 4
  /\ ret.op = "getNextAccount" /\ ret.kind = "account" /\ ret.val.key = PoolIds[1]
  /\ accounts[2].lastUsed = StartTime - autoRecoverMs /\ accounts[2].isAvailable

\* C4: after maxErrorCount consecutive recordError(id, 'unknown') calls, the last at
\* time t, the account fails the availability predicate before t + cooldownMs and passes
\* it from t + cooldownMs on, with no call on it in between (stated for an account whose
\* token is not expired beyond the grace period).
C4_UnknownErrorsCoolDownThenRecover ==
  \A i \in 1..Len(accounts) :
    LET account == accounts[i]
        run == lastError[account.key]
    IN (run.type = "unknown" /\ run.n >= maxErrorCount
          /\ ~ExpiredBeyondGrace(account, now)) =>
         IF now < run.at + cooldownMs
         THEN ~isAccountAvailable(account, now)
         ELSE isAccountAvailable(account, now)

\* The evaluations of the predicate on account k that a step makes.
EvalsOf(r, k) == {j \in 1..Len(r.evals) : r.evals[j].account.key = k}

\* C5: after recordError(id, 'auth') at time t, with no call changing the account since,
\* the account fails the availability predicate at every time before t + autoRecoverMs;
\* an evaluation at a time >= t + autoRecoverMs reports it available and leaves the
\* stored record with errorCount 0 and no autoRecoverAt.
C5_PendingAuthFails ==
  \A i \in 1..Len(accounts) :
    LET run == lastError[accounts[i].key]
    IN (run.type = "auth" /\ now < run.at + autoRecoverMs) =>
         ~isAccountAvailable(accounts[i], now)
C5_AuthStep ==
  \A k \in Keys(accounts) :
    lastError[k].type = "auth" =>
      \A j \in EvalsOf(ret', k) :
        IF now < lastError[k].at + autoRecoverMs
        THEN ~ret'.evals[j].result
        ELSE /\ ret'.evals[j].result
             /\ MapHas(accounts', k)
             /\ MapGet(accounts', k).errorCount = 0
             /\ MapGet(accounts', k).autoRecoverAt = undefined
C5_AuthAutoRecovers == [](C5_PendingAuthFails) /\ [][C5_AuthStep]_vars

\* An account with one counted error got an auth error, and the evaluation made when
\* its autoRecoverMs had passed reported it available and reset its errorCount.
C5_Witness ==
  \E k \in Keys(accounts) : \E j \in EvalsOf(ret, k) :
    LET before == ret.evals[j].account
    IN /\ before.isAvailable = FALSE /\ before.errorCount = 1
       /\ before.autoRecoverAt = before.lastUsed + autoRecoverMs
       /\ now >= before.autoRecoverAt
       /\ ret.evals[j].result
       /\ MapGet(accounts, k).errorCount = 0
       /\ MapGet(accounts, k).autoRecoverAt = undefined

\* The account a call was made on, before and after the call.
Called(op) == ret'.op = op /\ MapHas(accounts, ret'.id)
Before == MapGet(accounts, ret'.id)
After == MapGet(accounts', ret'.id)

\* C6: recordError leaves errorCount unchanged for quota, auth and network and adds
\* exactly 1 for server and unknown; every recordSuccess and every auto-recovery leaves
\* errorCount 0.
C6_ErrorCountStep ==
  /\ Called("recordError") =>
       After.errorCount = Before.errorCount
                            + (IF ret'.arg \in {"server", "unknown"} THEN 1 ELSE 0)
  /\ Called("recordSuccess") => After.errorCount = 0
  /\ \A j \in 1..Len(ret'.evals) :
       RecoveryDue(ret'.evals[j].account, now) =>
         MapGet(accounts', ret'.evals[j].account.key).errorCount = 0
C6_ErrorCountPolicy == [][C6_ErrorCountStep]_vars

\* A network error on an account with one counted error left the count at 1.
C6_Witness ==
  /\ ret.op = "recordError" /\ ret.arg = "network" /\ MapHas(accounts, ret.id)
  /\ MapGet(accounts, ret.id).errorCount = 1
  /\ MapGet(accounts, ret.id).cooldownUntil = now + networkCooldownMs

\* The policy table of recordError, with the stored cooldownUntil of the classifications
\* that do not set one given by kept(cooldownUntil before the call).
PolicyTable(kept) ==
  Called("recordError") =>
    /\ After.cooldownUntil =
         CASE ret'.arg = "quota" -> now + quotaResetMs
           [] ret'.arg = "network" -> now + networkCooldownMs
           [] ret'.arg = "server" -> now + serverCooldownMs
           [] ret'.arg = "unknown" ->
                IF Before.errorCount + 1 >= maxErrorCount THEN now + cooldownMs ELSE kept
           [] ret'.arg = "auth" -> kept
    /\ IF ret'.arg = "auth"
       THEN After.autoRecoverAt = now + autoRecoverMs /\ After.isAvailable = FALSE
       ELSE After.autoRecoverAt = Before.autoRecoverAt
              /\ After.isAvailable = Before.isAvailable

\* C7 as stated: cooldownUntil is unchanged by auth and by an unknown error below
\* maxErrorCount.
C7_CooldownPolicyUnchanged == [][PolicyTable(Before.cooldownUntil)]_vars

\* C7: recordError at time now follows the policy table, where auth and an unknown
\* error below maxErrorCount keep a set cooldownUntil and store 0 for an unset one.
C7_CooldownPolicy == [][PolicyTable(OrZero(Before.cooldownUntil))]_vars

\* The unknown error that reached maxErrorCount set the cooldownMs cooldown.
C7_Witness ==
  /\ ret.op = "recordError" /\ ret.arg = "unknown" /\ MapHas(accounts, ret.id)
  /\ MapGet(accounts, ret.id).errorCount = maxErrorCount
  /\ MapGet(accounts, ret.id).cooldownUntil = now + cooldownMs

CoolingDown(account, t) == Truthy(account.cooldownUntil) /\ account.cooldownUntil > t

\* What recordSuccess does to the account; blocked says when an unexpired cooldown
\* must still fail the predicate afterwards.
SuccessStep(blocked) ==
  Called("recordSuccess") =>
    /\ After.errorCount = 0
    /\ After.isAvailable = TRUE
    /\ After.cooldownUntil = Before.cooldownUntil
    /\ (CoolingDown(Before, now) /\ blocked) => ~isAccountAvailable(After, now)

\* C8 as stated: every account with an unexpired cooldownUntil fails the predicate
\* after the success.
C8_SuccessKeepsEveryCooldown == [][SuccessStep(TRUE)]_vars

\* C8: recordSuccess on a registered id sets errorCount 0 and isAvailable true and
\* leaves cooldownUntil unchanged, so an account with an unexpired cooldownUntil and no
\* auto-recovery due still fails the availability predicate after the success.
C8_SuccessKeepsCooldown == [][SuccessStep(~RecoveryDue(Before, now))]_vars

\* A success on an account in cooldown: counters reset, the account still unavailable.
C8_Witness ==
  /\ ret.op = "recordSuccess" /\ MapHas(accounts, ret.id)
  /\ LET account == MapGet(accounts, ret.id)
     IN /\ CoolingDown(account, now) /\ account.autoRecoverAt = undefined
        /\ account.errorCount = 0 /\ account.isAvailable = TRUE
        /\ account.requestCount = 1
        /\ ~isAccountAvailable(account, now)

\* The six rules in order of precedence, as one formula: rule 1 decides alone; otherwise
\* every veto of rules 2 to 5 must be absent and rule 6 reads the flag.
SixRules(account, t) ==
  \/ Truthy(account.autoRecoverAt) /\ account.autoRecoverAt <= t
  \/ /\ ~Truthy(account.autoRecoverAt)
     /\ ~CoolingDown(account, t)
     /\ ~(account.errorCount >= maxErrorCount)
     /\ ~ExpiredBeyondGrace(account, t)
     /\ account.isAvailable # FALSE

\* C9: for every account record and every time now, the availability predicate returns
\* the result of the six-rule precedence.
C9_SixRulePrecedence ==
  \A j \in 1..Len(ret.evals) :
    ret.evals[j].result = SixRules(ret.evals[j].account, now)

\* An evaluation that only rule 6 decided: no veto applies and the flag is false.
C9_Witness ==
  \E j \in 1..Len(ret.evals) :
    LET account == ret.evals[j].account
    IN /\ account.autoRecoverAt = undefined /\ ~CoolingDown(account, now)
       /\ account.errorCount = maxErrorCount - 1
       /\ account.expiresAt + expiryGracePeriodMs = now
       /\ account.isAvailable = FALSE
       /\ ~ret.evals[j].result

OtherwiseHealthy(account, t) ==
  /\ ~Truthy(account.autoRecoverAt)
  /\ ~CoolingDown(account, t)
  /\ account.errorCount < maxErrorCount
  /\ account.isAvailable # FALSE

\* The expiry boundary; due says whether a due auto-recovery is told apart.
ExpiryBoundary(due) ==
  \A j \in 1..Len(ret.evals) :
    LET account == ret.evals[j].account
    IN /\ (account.expiresAt = now - expiryGracePeriodMs - 1
             /\ ~(due /\ RecoveryDue(account, now))) => ~ret.evals[j].result
       /\ (OtherwiseHealthy(account, now)
             /\ account.expiresAt \in {now - expiryGracePeriodMs + 1,
                                      now - expiryGracePeriodMs}) => ret.evals[j].result

\* C10 as stated: every account with expiresAt = now - expiryGracePeriodMs - 1 is
\* unavailable.
C10_ExpiredAlwaysUnavailable == ExpiryBoundary(FALSE)

\* C10: an account with expiresAt = now - expiryGracePeriodMs - 1 and no auto-recovery
\* due is unavailable; an otherwise healthy account with expiresAt = now -
\* expiryGracePeriodMs + 1, or with expiresAt + expiryGracePeriodMs = now, is available.
C10_ExpiryBoundary == ExpiryBoundary(TRUE)

\* An otherwise healthy account evaluated at the very instant its grace period ends.
C10_Witness ==
  \E j \in 1..Len(ret.evals) :
    LET account == ret.evals[j].account
    IN /\ OtherwiseHealthy(account, now)
       /\ account.expiresAt + expiryGracePeriodMs = now
       /\ ret.evals[j].result

\* No account of the pool m passes the availability predicate at time t.
NonePass(m, t) == \A i \in 1..Len(m) : ~SixRules(m[i], t)

\* max(0, cooldownUntil - t), an account with no cooldown counting as wait 0.
CooldownWait(account, t) ==
  IF CoolingDown(account, t) THEN account.cooldownUntil - t ELSE 0
\* The account is the earliest in insertion order among those of the least wait.
IsShortestWait(m, t, account) ==
  \E i \in 1..Len(m) :
    /\ m[i] = account
    /\ \A j \in 1..Len(m) : CooldownWait(m[j], t) >= CooldownWait(m[i], t)
    /\ \A j \in 1..(i - 1) : CooldownWait(m[j], t) > CooldownWait(m[i], t)

\* C11: when no account passes the availability predicate, getNextAccount returns the
\* account with the smallest max(0, cooldownUntil - now) over the whole pool, ties going
\* to the earliest account in insertion order; in a single-account pool that is the one
\* account, unavailable as it is.
C11_FallbackStep ==
  (ret'.op = "getNextAccount" /\ Len(accounts) > 0 /\ NonePass(accounts, now)) =>
    /\ ret'.kind = "account"
    /\ IsShortestWait(accounts, now, ret'.val)
C11_FallbackShortestCooldown == [][C11_FallbackStep]_vars

\* The earliest time from t on at which the account passes the availability predicate
\* if no call is made on it, or Never.
Never == undefined
ReadyAt(account, t) ==
  IF Truthy(account.autoRecoverAt) THEN Max(t, account.autoRecoverAt)
  ELSE LET u == Max(t, OrZero(account.cooldownUntil))
       IN IF \/ account.errorCount >= maxErrorCount
             \/ account.isAvailable = FALSE
             \/ ExpiredBeyondGrace(account, u)
          THEN Never ELSE u
Sooner(x, y) == x # Never /\ (y = Never \/ x < y)

\* C12: when no account passes the availability predicate, the account getNextAccount
\* falls back to is the closest to becoming available: no other account of the pool would
\* pass the predicate at an earlier future time, autoRecoverAt deadlines counted as well
\* as cooldownUntil.
C12_FallbackStep ==
  (ret'.op = "getNextAccount" /\ ret'.kind = "account" /\ NonePass(accounts, now)) =>
    \A i \in 1..Len(accounts) :
      ~Sooner(ReadyAt(accounts[i], now), ReadyAt(ret'.val, now))
C12_FallbackClosestToAvailable == [][C12_FallbackStep]_vars

\* Account i is the only one of the pool m to pass the availability predicate at time
\* t, the others being in an unexpired cooldown.
OnlyPasses(m, t, i) ==
  /\ SixRules(m[i], t)
  /\ \A j \in (1..Len(m)) \ {i} : CoolingDown(m[j], t) /\ ~SixRules(m[j], t)

\* C13: while exactly one account of a fixed pool passes the availability predicate, the
\* others being in an unexpired cooldown, every getNextAccount call returns that account,
\* wherever in the pool the previous call left the cursor.
C13_OnlyPassingStep ==
  \A i \in 1..Len(accounts) :
    (ret'.op = "getNextAccount" /\ OnlyPasses(accounts, now, i)
       /\ currentIndex < Len(accounts)) =>
      ret'.kind = "account" /\ ret'.val = accounts[i]
C13_OnlyPassingAccountReturned == [][C13_OnlyPassingStep]_vars

\* The second of two calls in a row scanned past two accounts in cooldown and returned
\* the third, as the first had.
C13_Witness ==
  /\ steps = 2 /\ now = StartTime /\ Len(accounts) = 3
  /\ OnlyPasses(accounts, now, 3)
  /\ ret.op = "getNextAccount" /\ ret.kind = "account" /\ ret.val = accounts[3]
  /\ Len(ret.evals) = 3 /\ currentIndex = 0

\* C14: getNextAvailableAccount(excludeId) never returns the account whose id is
\* excludeId; it returns null exactly when the pool holds at most one account, and a
\* member of the pool whenever the pool holds two or more.
C14_ExcludingStep ==
  ret'.op = "getNextAvailableAccount" =>
    /\ (ret'.kind = "null") <=> (Len(accounts) <= 1)
    /\ ret'.kind # "null" =>
         /\ ret'.kind = "account"
         /\ ret'.val.id # ret'.id
         /\ \E i \in 1..Len(accounts) : accounts[i] = ret'.val
C15_SameAsRestrictedStep ==
  LET others == SelectSeq(accounts, LAMBDA a : a.id # ret'.id)
      r == scan(others, others, currentIndex, 0, << >>)
  IN (ret'.op = "getNextAvailableAccount" /\ Len(accounts) >= 2
        /\ currentIndex < Len(others)) =>
       ret'.kind = r.kind /\ ret'.val = r.val
C15_ExcludingSameAsRestrictedScan == [][C15_SameAsRestrictedStep]_vars

\* The record is as an administrative reset leaves it, and passes the availability
\* predicate at time t unless its token is expired beyond the grace period.
IsReset(account, t) ==
  /\ account.errorCount = 0
  /\ account.cooldownUntil = undefined
  /\ account.autoRecoverAt = undefined
  /\ account.isAvailable = TRUE
  /\ ~ExpiredBeyondGrace(account, t) => isAccountAvailable(account, t)

\* C16: after resetAccountState(id) on a registered id, and for every account after
\* resetAllAccountStates(), the record has errorCount 0, no cooldownUntil, no
\* autoRecoverAt and isAvailable true, whatever errors were recorded before, and passes
\* the availability predicate unless its token is expired beyond the grace period.
C16_ResetStep ==
  /\ Called("resetAccountState") => ret'.val = TRUE /\ IsReset(After, now)
  /\ ret'.op = "resetAllAccountStates" =>
       /\ Len(accounts') = Len(accounts)
       /\ \A i \in 1..Len(accounts') : IsReset(accounts'[i], now)
C16_ResetClearsHealthState == [][C16_ResetStep]_vars

\* resetAccountState on an account that two recorded errors, an auth error among them,
\* had made unavailable: the account passes the predicate again.
C16_Witness ==
  /\ ret.op = "resetAccountState" /\ ret.kind = "boolean" /\ ret.val = TRUE
  /\ accountStats[ret.id].errors = 2
  /\ MapGet(accounts, ret.id).lastUsed = now
  /\ IsReset(MapGet(accounts, ret.id), now)
  /\ isAccountAvailable(MapGet(accounts, ret.id), now)

\* C17: markNeedsRefresh(id) leaves the account as recordError(id, 'auth') called at the
\* same time on the same state would: isAvailable false and the same autoRecoverAt
\* deadline.
C17_RefreshStep ==
  Called("markNeedsRefresh") =>
    /\ After.isAvailable = errorPolicy(Before, "auth", now).isAvailable
    /\ After.autoRecoverAt = errorPolicy(Before, "auth", now).autoRecoverAt
C17_MarkNeedsRefreshAsAuthError == [][C17_RefreshStep]_vars

\* C18: addAccount(a) stores the record under a.id with isAvailable true, errorCount 0,
\* requestCount 0, lastUsed 0 and an all-zero AccountStats, keeping the caller-supplied
\* fields; a second addAccount(a) right after the first leaves accounts, stats, list
\* order and cursor as they are.
C18_AddStep ==
  ret'.op = "addAccount" =>
    /\ MapHas(accounts', ret'.arg.id)
    /\ LET account == MapGet(accounts', ret'.arg.id)
       IN /\ account.isAvailable = TRUE /\ account.errorCount = 0
          /\ account.requestCount = 0 /\ account.lastUsed = 0
          /\ account.id = ret'.arg.id
          /\ account.expiresAt = ret'.arg.expiresAt
          /\ account.cooldownUntil = ret'.arg.cooldownUntil
          /\ account.autoRecoverAt = ret'.arg.autoRecoverAt
    /\ accountStats'[ret'.arg.id] = ZeroStats
    /\ (ret.op = "addAccount" /\ ret.arg = ret'.arg) =>
         /\ accounts' = accounts
         /\ accountStats' = accountStats
         /\ currentIndex' = currentIndex
C18_AddAccountResetsAndIsIdempotent == [][C18_AddStep]_vars

\* An account object carrying old health fields and counters was added to a pool of
\* two: the counters are reset, the supplied cooldown is kept.
C18_Witness ==
  /\ ret.op = "addAccount" /\ ret.arg.errorCount = maxErrorCount
  /\ Len(accounts) = 2 /\ accounts[1].key = ret.id /\ currentIndex = 1
  /\ accounts[1].errorCount = 0 /\ accounts[1].requestCount = 0
  /\ accounts[1].cooldownUntil = StartTime + serverCooldownMs
  /\ accountStats[ret.id] = ZeroStats

\* C19: accounts and stats are 1:1 in every reachable state: the keys of the two maps
\* are the same set.
C19_AccountsAndStatsOneToOne == Keys(accounts) = DOMAIN accountStats

\* C20: in every reachable state every record is stored under the key equal to its own
\* id field, so that no two records of the pool carry the same id.
C20_OneRecordPerId ==
  /\ \A i \in 1..Len(accounts) : accounts[i].key = accounts[i].id
  /\ \A i, j \in 1..Len(accounts) : accounts[i].id = accounts[j].id => i = j

\* The stats counters of the ids registered before and after a step do not decrease,
\* except, when readded is TRUE, those of the id an addAccount call of the step names.
CountersGrow(readded) ==
  \A k \in DOMAIN accountStats \cap DOMAIN accountStats' :
    (readded /\ ret'.op = "addAccount" /\ ret'.id = k)
      \/ /\ accountStats'[k].requests >= accountStats[k].requests
         /\ accountStats'[k].errors >= accountStats[k].errors

\* C21 as stated: for an id that stays registered no operation, a repeated addAccount of
\* the id included, makes stats.requests or stats.errors smaller.
C21_CountersNeverDecrease == [][CountersGrow(FALSE)]_vars

\* C21: for an id that stays registered, no operation other than an addAccount of that
\* id makes stats.requests or stats.errors smaller.
C21_CountersMonotonic == [][CountersGrow(TRUE)]_vars

\* reset() on a pool whose account has counted a request and an error: the counters stand.
C21_Witness ==
  /\ ret.op = "reset" /\ Len(accounts) = 1
  /\ accountStats[accounts[1].key].requests = 1
  /\ accountStats[accounts[1].key].errors = 1
  /\ accounts[1].errorCount = 0 /\ accounts[1].requestCount = 1

\* C22: every recordError call on a registered id, for each of the five
\* classifications, sets the account's lastUsed to the call time and adds exactly 1 to
\* the account's stats.errors.
C22_ErrorStep ==
  Called("recordError") =>
    /\ ret'.arg \in ErrorType
    /\ After.lastUsed = now
    /\ accountStats'[ret'.id].errors = accountStats[ret'.id].errors + 1
    /\ accountStats'[ret'.id].lastUsed = now
C22_EveryErrorTouchesLastUsedAndStats == [][C22_ErrorStep]_vars

\* An auth error, reported later than a first error, on an account used before.
C22_Witness ==
  /\ ret.op = "recordError" /\ ret.arg = "auth" /\ MapHas(accounts, ret.id)
  /\ now > StartTime
  /\ MapGet(accounts, ret.id).lastUsed = now
  /\ accountStats[ret.id].errors = 2
  /\ accountStats[ret.id].lastUsed = now

\* The second recordError call for the first account has just returned.
SecondErrorReturned ==
  /\ ret.op = "recordError" /\ ret.id = PoolIds[1]
  /\ accountStats[PoolIds[1]].errors = 2

\* C23 as stated: when the two recordError calls (server or unknown) for the account
\* have been made, in either order and interleaved with getNextAccount and with
\* recordSuccess or recordError calls for the other id, its errorCount is 2 higher than
\* before the two calls (0), as its stats.errors is.
C23_BothErrorsInErrorCount ==
  SecondErrorReturned => MapGet(accounts, PoolIds[1]).errorCount = 2

\* Each recordError (server or unknown) adds 1 to the errorCount and the stats.errors
\* stored when it is called; a call that is not for the account leaves both, unless it
\* applies the account's due auto-recovery, which sets errorCount to 0.
C23_Step ==
  \A k \in Keys(accounts) :
    LET before == MapGet(accounts, k)
        after == MapGet(accounts', k)
    IN /\ (ret'.op = "recordError" /\ ret'.id = k /\ ret'.arg \in {"server", "unknown"}) =>
            /\ after.errorCount = before.errorCount + 1
            /\ accountStats'[k].errors = accountStats[k].errors + 1
       /\ (ret'.op \notin {"recordError", "recordSuccess"} \/ ret'.id # k) =>
            /\ accountStats'[k].errors = accountStats[k].errors
            /\ \/ after.errorCount = before.errorCount
               \/ /\ RecoveryDue(before, now) /\ EvalsOf(ret', k) # {}
                  /\ after.errorCount = 0

\* C23: no recordError update is lost: after the two calls stats.errors is 2 higher, and
\* errorCount is 2 higher unless a getNextAccount call between them applied the
\* account's due auto-recovery, after which it is 1.
C23_NoLostUpdate ==
  /\ [](SecondErrorReturned =>
          LET account == MapGet(accounts, PoolIds[1])
          IN \/ account.errorCount = 2
             \/ account.errorCount = 1 /\ account.autoRecoverAt = undefined
                  /\ account.isAvailable = TRUE)
  /\ [][C23_Step]_vars

\* The two errors of the first account, of different classifications, with an error of
\* the other account reported between them.
C23_Witness ==
  /\ SecondErrorReturned /\ ret.arg = "unknown" /\ steps = 3
  /\ MapGet(accounts, PoolIds[1]).errorCount = 2
  /\ MapGet(accounts, PoolIds[1]).cooldownUntil = StartTime + serverCooldownMs
  /\ accountStats[PoolIds[2]].errors = 1
  /\ MapGet(accounts, PoolIds[2]).lastUsed = StartTime

\* C24: getAccountDiagnostics(id) and the availableCount getter are read-only: a call
\* leaves every account record, every stats record and the cursor as they were.
C24_ReadOnlyStep ==
  ret'.op \in {"getAccountDiagnostics", "availableCount"} =>
    /\ accounts' = accounts
    /\ accountStats' = accountStats
    /\ currentIndex' = currentIndex
C24_DiagnosticsReadOnly == [][C24_ReadOnlyStep]_vars

\* C25: recordSuccess(id, ...) and recordError(id, ...) change the account and the stats
\* of id only: the records and stats of every other id, the registered ids in their
\* order and the cursor are as before the call.
C25_FrameStep ==
  ret'.op \in {"recordSuccess", "recordError"} =>
    /\ Len(accounts') = Len(accounts)
    /\ \A i \in 1..Len(accounts) :
         /\ accounts'[i].key = accounts[i].key
         /\ accounts[i].key # ret'.id => accounts'[i] = accounts[i]
    /\ DOMAIN accountStats' = DOMAIN accountStats
    /\ \A k \in DOMAIN accountStats : k # ret'.id => accountStats'[k] = accountStats[k]
    /\ currentIndex' = currentIndex
C25_OutcomeReportsTouchOneAccount == [][C25_FrameStep]_vars

\* An error reported for the second account of two, the cursor past the first, the first
\* account and its stats as its own success left them.
C25_Witness ==
  /\ ret.op = "recordError" /\ Len(accounts) = 2 /\ ret.id = accounts[2].key
  /\ currentIndex = 1
  /\ accounts[1].requestCount = 1 /\ accounts[1].errorCount = 0
  /\ accountStats[accounts[1].key].requests = 1
  /\ accountStats[accounts[1].key].errors = 0
  /\ accountStats[accounts[2].key].errors = 1

\* C26: a call naming an id that is not registered is a no-op and never throws:
\* recordSuccess, recordError, markNeedsRefresh, updateAccount and removeAccount leave the
\* accounts, the stats and the cursor unchanged, getAccount and getAccountDiagnostics
\* return null, and resetAccountState returns false.
ByIdOps ==
  {"recordSuccess", "recordError", "markNeedsRefresh", "updateAccount", "removeAccount",
   "getAccount", "getAccountDiagnostics", "resetAccountState"}
C26_UnknownIdStep ==
  (ret'.op \in ByIdOps /\ ~MapHas(accounts, ret'.id)) =>
    /\ accounts' = accounts
    /\ accountStats' = accountStats
    /\ currentIndex' = currentIndex
    /\ ret'.kind # "throw"
    /\ ret'.op \in {"getAccount", "getAccountDiagnostics"} => ret'.kind = "null"
    /\ ret'.op = "resetAccountState" => ret'.kind = "boolean" /\ ret'.val = FALSE
    /\ ret'.op \notin {"getAccount", "getAccountDiagnostics", "resetAccountState"} =>
         ret'.kind = "void"
DeadlinesPassed(account, t) ==
  /\ ~CoolingDown(account, t)
  /\ ~(Truthy(account.autoRecoverAt) /\ account.autoRecoverAt > t)
C27_TransientFailuresHeal ==
  \A i \in 1..Len(accounts) :
    (accounts[i].lastUsed # 0 /\ DeadlinesPassed(accounts[i], now)
       /\ ~ExpiredBeyondGrace(accounts[i], now)) =>
      SixRules(accounts[i], now)

\* C28: a cooldown gates selection for its whole duration: after the quota error of the
\* first account at StartTime, and whatever errors and successes are recorded for it
\* since, a getNextAccount call before StartTime + quotaResetMs does not return that
\* account while another account passes the availability predicate.
C28_Step ==
  (/\ ret'.op = "getNextAccount"
   /\ now < StartTime + quotaResetMs
   /\ \E i \in 1..Len(accounts) :
        accounts[i].key # PoolIds[1] /\ SixRules(accounts[i], now)) =>
    ~(ret'.kind = "account" /\ ret'.val.key = PoolIds[1])
C28_QuotaCooldownGatesSelection == [][C28_Step]_vars

\* C29: getNextAccount inspects at most N = pool-size accounts per call, the ones at
\* consecutive positions from the cursor, and advances the cursor by one modulo N on
\* every inspection, chosen or not: after k inspections from cursor c the cursor is
\* (c + k) mod N, so a call that inspects all N and falls back leaves the cursor at c.
\* The inspection that finds no account at the cursor position and throws counts as one.
Inspections(r) == Len(r.evals) + (IF r.kind = "throw" THEN 1 ELSE 0)
C29_Step ==
  ret'.op = "getNextAccount" =>
    LET N == Len(accounts)
        k == Inspections(ret')
    IN IF N = 0
       THEN k = 0 /\ currentIndex' = currentIndex
       ELSE /\ k <= N
            /\ currentIndex' = (currentIndex + k) % N
            /\ \A j \in 1..Len(ret'.evals) :
                 ret'.evals[j].account = accounts[((currentIndex + j - 1) % N) + 1]
            /\ (ret'.kind # "throw" /\ \A j \in 1..Len(ret'.evals) : ~ret'.evals[j].result) =>
                 k = N /\ currentIndex' = currentIndex
C29_CursorAdvancesPerInspection == [][C29_Step]_vars

\* A call on three accounts none of which passes, started at the last position: three
\* inspections, the fallback's choice returned, the cursor at the last position again.
C29_Witness ==
  /\ ret.op = "getNextAccount" /\ ret.kind = "account"
  /\ Len(accounts) = 3 /\ Len(ret.evals) = 3
  /\ \A j \in 1..3 : ~ret.evals[j].result
  /\ ret.evals[1].account.key = PoolIds[3]
  /\ ret.evals[2].account.key = PoolIds[1]
  /\ currentIndex = 2

\* C30: the record returned by getNextAccount or getNextAvailableAccount equals the
\* record stored in the pool under that key when the call returns: same isAvailable,
\* errorCount, cooldownUntil and autoRecoverAt, also when the account was auto-recovered
\* during the call.
C30_ReturnedRecordIsStoredRecord ==
  (ret.op \in {"getNextAccount", "getNextAvailableAccount"} /\ ret.kind = "account") =>
    /\ MapHas(accounts, ret.val.key)
    /\ LET stored == MapGet(accounts, ret.val.key)
       IN /\ stored.isAvailable = ret.val.isAvailable
          /\ stored.errorCount = ret.val.errorCount
          /\ stored.cooldownUntil = ret.val.cooldownUntil
          /\ stored.autoRecoverAt = ret.val.autoRecoverAt

\* C31: an account whose token is expired beyond grace is never reported available by
\* the availability predicate, never counted by availableCount and never returned by the
\* primary scan of getNextAccount, and a second evaluation of the predicate at the same
\* now gives the answer of the first. As the code has it, both hold except for the one
\* evaluation that applies a due auto-recovery to such an account.
RecoversExpired(account, t) == RecoveryDue(account, t) /\ ExpiredBeyondGrace(account, t)
TrueEvals(r) == Cardinality({j \in 1..Len(r.evals) : r.evals[j].result})
ExpiredStep(excused) ==
  /\ \A j \in 1..Len(ret'.evals) :
       LET e == ret'.evals[j]
       IN ~(excused /\ RecoversExpired(e.account, now)) =>
            /\ ExpiredBeyondGrace(e.account, now) => ~e.result
            /\ MapHas(accounts', e.account.key) =>
                 SixRules(MapGet(accounts', e.account.key), now) = e.result
  /\ ret'.op = "availableCount" =>
       /\ Len(ret'.evals) = Len(accounts)
       /\ ret'.val = TrueEvals(ret')
  /\ (ret'.op = "getNextAccount" /\ ret'.kind = "account" /\ TrueEvals(ret') > 0) =>
       ret'.val = ret'.evals[Len(ret'.evals)].account
C31_ExpiredNeverAvailable == [][ExpiredStep(FALSE)]_vars
C31_ExpiredUnavailableUnlessRecovering == [][ExpiredStep(TRUE)]_vars

\* availableCount over two accounts after the token of the second has passed its grace
\* period: the first is counted, the second is not.
C31_Witness ==
  /\ ret.op = "availableCount" /\ Len(ret.evals) = 2 /\ ret.val = 1
  /\ ret.evals[1].result /\ ~ret.evals[2].result
  /\ ExpiredBeyondGrace(ret.evals[2].account, now)
  /\ ret.evals[2].account.isAvailable = TRUE
  /\ ret.evals[2].account.errorCount = 0
  /\ ret.evals[2].account.cooldownUntil = undefined
  /\ ret.evals[2].account.autoRecoverAt = undefined

\* C32: reset() and resetAllAccountStates() leave every account in the same health
\* state (errorCount 0, no cooldownUntil, no autoRecoverAt, isAvailable true, every other
\* field as it was) and differ only in the cursor, which reset() sets to 0 and
\* resetAllAccountStates() leaves alone; after either, every account whose token is not
\* expired beyond grace passes the availability predicate.
Healthy(before, after) ==
  after = [before EXCEPT !.errorCount = 0, !.cooldownUntil = undefined,
                         !.autoRecoverAt = undefined, !.isAvailable = TRUE]
C32_Step ==
  ret'.op \in {"reset", "resetAllAccountStates"} =>
    /\ Len(accounts') = Len(accounts)
    /\ \A i \in 1..Len(accounts) :
         /\ Healthy(accounts[i], accounts'[i])
         /\ ~ExpiredBeyondGrace(accounts'[i], now) => SixRules(accounts'[i], now)
    /\ currentIndex' = IF ret'.op = "reset" THEN 0 ELSE currentIndex
C32_ResetSameAsResetAll == [][C32_Step]_vars

====
